---- MODULE Spec2Model ----
(***************************************************************************)
(* A model of the nanoclaw orchestration core:                             *)
(*   - the task scheduler       (runTask, startSchedulerLoop)              *)
(*   - the container runner     (runContainerAgent, writeTasksSnapshot)    *)
(*   - the agent-side IPC tools (writeIpcFile, createIpcMcp)               *)
(*                                                                         *)
(* The host is one single-threaded Node process, so every action below is  *)
(* one run-to-completion turn of its event loop: the code from one timer   *)
(* or I/O callback up to the next await on a pending promise.              *)
(*                                                                         *)
(* Time is counted in whole scheduler poll intervals (60000 ms = 1).       *)
(***************************************************************************)
EXTENDS Integers, Sequences, FiniteSets, TLC

VARIABLES
    \* ---- scheduler (src/src/channels/feishu.ts 316-449) ----
    now,          \* the wall clock, Date.now()
    tasks,        \* the scheduled_tasks table, by task id
    registered,   \* folders of the groups deps.registeredGroups() returns
    pc,           \* where the scheduler loop is: "sleeping" | "awaiting"
    wake,         \* when the pending setTimeout(loop, ...) is due
    dueTasks,     \* the list getDueTasks() returned in the current tick
    idx,          \* position in dueTasks of the task being run
    cur,          \* the runTask frame that awaits its container
    taskRuns,     \* the task_run_logs table (append only)
    invocations,  \* runContainerAgent calls that have not resolved yet
    snapshotFile, \* data/ipc/current_tasks.json
    tickLog,      \* what the current tick did with each due task
    envOps,       \* how many requests and failures the environment has caused
    \* ---- one runContainerAgent call (src/src/feishu-auth.ts 264-380) ----
    call,         \* the arguments of the call and the host's file system
    mounts,       \* the mount list buildVolumeMounts returned
    containerArgs, \* the -v arguments the container is spawned with
    proc,         \* the spawned process: "none" | "alive" | "failed" | "closed"
    deadline,     \* the delay the timeout timer was armed with
    timer,        \* the timeout timer: "none" | "armed" | "fired" | "cleared"
    stdout,       \* the lines received on the process's standard output
    stderr,       \* the text received on its standard error
    resolves,     \* the values passed to the promise's resolve, in order
    lastEvent,    \* the last process event handled, with its exit code
    \* ---- the agent-side IPC tools (src/unnamed/part_001) ----
    calls,        \* the tool calls, each at its position in writeIpcFile
    files,        \* the files of the IPC mailbox directories
    polled,       \* what the host poller has read under final names
    listed,       \* what the last list_tasks call read and returned
    \* ---- the Feishu channel (src/src/channels/feishu.ts 111-217) ----
    delivered,    \* the message events the adapter has delivered, in order
    handlers,     \* where handleMessageEvent is for each delivered event
    received      \* the messages passed to the onMessage callback, in order

schedVars == <<now, tasks, registered, pc, wake, dueTasks, idx, cur,
               taskRuns, invocations, snapshotFile, tickLog, envOps>>

callVars == <<call, mounts, containerArgs>>

runVars == <<callVars, proc, deadline, timer, stdout, stderr, resolves,
             lastEvent>>

ipcVars == <<calls, files, polled, listed>>

chanVars == <<delivered, handlers, received>>

vars == <<schedVars, runVars, ipcVars, chanVars>>

-----------------------------------------------------------------------------
(* Bounds of the model *)

MaxTime == 2

MaxEnvOps == 1

CronEvery == 2

(* Program constants (time unit: one poll interval) *)

SCHEDULER_POLL_INTERVAL == 1

MAIN_GROUP_FOLDER == "main"

Folders == {MAIN_GROUP_FOLDER, "g1"}

TaskIds == {"t1", "t2"}

\* next_run is a set: empty for null, else the one instant
NULL == {}

At(t) == {t}

NoTask == "none"

-----------------------------------------------------------------------------
(* Values *)

NoText == [null |-> TRUE, s |-> <<>>]

Text(s) == [null |-> FALSE, s |-> s]

\* JavaScript truthiness of a string | null
Truthy(t) == ~t.null /\ Len(t.s) > 0

\* A ScheduledTask row: the schedule a task can carry
Schedules ==
    { [schedule_type |-> "once",     schedule_value |-> "iso"],
      [schedule_type |-> "interval", schedule_value |-> "2"],
      [schedule_type |-> "interval", schedule_value |-> "0"],
      [schedule_type |-> "interval", schedule_value |-> "-1"],
      [schedule_type |-> "interval", schedule_value |-> "abc"],
      [schedule_type |-> "cron",     schedule_value |-> "every"],
      [schedule_type |-> "cron",     schedule_value |-> "bad"] }

\* parseInt(s, 10): the number a decimal prefix denotes, NaN without one
parseInt(s) ==
    CASE s = "2"  -> [nan |-> FALSE, n |-> 2]
      [] s = "0"  -> [nan |-> FALSE, n |-> 0]
      [] s = "-1" -> [nan |-> FALSE, n |-> 0 - 1]
      [] OTHER    -> [nan |-> TRUE,  n |-> 0]

\* CronExpressionParser.parse(expr): throws on an expression it cannot read
CronParses(expr) == expr = "every"

\* interval.next(): the first occurrence strictly after the current date;
\* "every" fires at every multiple of CronEvery
CronNextInclusive(t) == ((t + CronEvery - 1) \div CronEvery) * CronEvery

CronNext(t) == ((t \div CronEvery) + 1) * CronEvery

\* ContainerOutput values the scheduler can receive from runContainerAgent
ErrText(kind, n, text) == [kind |-> kind, n |-> n, text |-> text]

NoError == ErrText("", 0, <<>>)

Output(status, result, error) ==
    [status |-> status, result |-> result, error |-> error]

\* runTask 418: result.slice(0, 200)
SummaryLimit == 200

\* A result text one character longer than the summary keeps
LongResult == [i \in 1..(SummaryLimit + 1) |-> "a"]

RunnerOutputs ==
    { Output("success", Text(<<"A">>), NoError),
      Output("success", Text(LongResult), NoError),
      Output("success", Text(<<>>), NoError),  \* the empty string
      Output("success", NoText, NoError),
      Output("undefined", NoText, NoError),  \* a JSON value without status
      Output("error", NoText, ErrText("Container exited with code", 1, <<>>)),
      Output("error", NoText, NoError) }     \* an error object without text

\* What `await runContainerAgent(...)` ends with in runTask: a value the
\* promise resolved with, or the exception the call threw before it
\* returned its promise (status "thrown", error: err.message)
RunnerOutcomes ==
    RunnerOutputs \cup { Output("thrown", NoText, ErrText("err.message", 0, <<>>)) }

\* The outcomes that count against the bound on what the environment does
\* out of the ordinary: every outcome but a success with a short result
\* and an error with its text
RareOutcomes ==
    RunnerOutcomes \ { Output("success", Text(<<"A">>), NoError),
                       Output("error", NoText,
                              ErrText("Container exited with code", 1, <<>>)) }

-----------------------------------------------------------------------------
(* The task store (db.js is not among the sources: these follow the        *)
(* scheduler's algorithm as the specification states it, section 4.4)      *)

\* A row of the scheduled_tasks table, new and due
TaskRow(folder, schedule) ==
    [exists |-> TRUE, group_folder |-> folder, prompt |-> "p",
     schedule_type |-> schedule.schedule_type,
     schedule_value |-> schedule.schedule_value,
     status |-> "active", next_run |-> At(0), last_result |-> <<"", NoText>>]

Once == [schedule_type |-> "once", schedule_value |-> "iso"]

Every2 == [schedule_type |-> "interval", schedule_value |-> "2"]

BadCron == [schedule_type |-> "cron", schedule_value |-> "bad"]

NoRow == [TaskRow(MAIN_GROUP_FOLDER, Once) EXCEPT !.exists = FALSE]

\* getDueTasks(): status active and next_run at or before now
IsDue(store, t, time) ==
    /\ store[t].exists
    /\ store[t].status = "active"
    /\ \E at \in store[t].next_run : at <= time

\* getTaskById(id): the row, or undefined
getTaskById(store, id) ==
    IF store[id].exists THEN store[id] ELSE [exists |-> FALSE]

\* updateTaskAfterRun(id, nextRun, lastResult)
updateTaskAfterRun(store, id, nextRun, lastResult) ==
    IF store[id].exists
    THEN [store EXCEPT ![id].next_run = nextRun, ![id].last_result = lastResult]
    ELSE store

\* logTaskRun(log)
logTaskRun(runs, log) == Append(runs, log)

\* getAllTasks() mapped to the snapshot entries (runTask 360-369)
SnapshotOfActive(store) ==
    { [id |-> t, groupFolder |-> store[t].group_folder,
       prompt |-> store[t].prompt,
       schedule_type |-> store[t].schedule_type,
       schedule_value |-> store[t].schedule_value,
       status |-> store[t].status, next_run |-> store[t].next_run]
      : t \in {u \in TaskIds : store[u].exists /\ store[u].status = "active"} }

SnapshotOf(store) ==
    { [id |-> t, groupFolder |-> store[t].group_folder,
       prompt |-> store[t].prompt,
       schedule_type |-> store[t].schedule_type,
       schedule_value |-> store[t].schedule_value,
       status |-> store[t].status, next_run |-> store[t].next_run]
      : t \in {u \in TaskIds : store[u].exists} }

\* writeTasksSnapshot 383-396: the file holds the JSON text of the array
NoSnapshot == [state |-> "absent", entries |-> {}]

writeTasksSnapshot(entries) == [state |-> "written", entries |-> entries]

\* All orders in which a set of task ids can be listed
Orderings(S) ==
    { q \in [1..Cardinality(S) -> S] : \A i, j \in DOMAIN q : q[i] = q[j] => i = j }

-----------------------------------------------------------------------------
(* runTask and the scheduler loop *)

\* startSchedulerLoop 434-437: the re-check of the task just before it runs
StillActiveStale(store, id) == TRUE

StillActive(store, id) ==
    LET currentTask == getTaskById(store, id)
    IN  currentTask.exists /\ currentTask.status = "active"

\* runTask 343-346: the registered group whose folder owns the task
GroupFoundAlways(groups, folder) == TRUE

GroupFound(groups, folder) == folder \in groups

\* runTask 346-357: the TaskRun logged when the group is missing
GroupMissingRun(id, time) ==
    [task_id |-> id, run_at |-> time, duration_ms |-> 0, status |-> "error",
     result |-> NoText, error |-> ErrText("Group not found", 0, <<>>)]

\* The loop body from position i on, up to the first task whose runTask
\* reaches `await runContainerAgent` (started = that task) or to the end of
\* the list (started = NoTask).  Nothing else runs in between: the awaits on
\* the way resolve in microtasks.
RECURSIVE RunLoop(_, _, _, _, _, _)
RunLoop(i, due, store, groups, time, acc) ==
    IF i > Len(due)
    THEN [acc EXCEPT !.i = i, !.started = NoTask]
    ELSE LET id == due[i] IN
         IF ~StillActive(store, id)
         THEN RunLoop(i + 1, due, store, groups, time,
                      [acc EXCEPT !.log = Append(@, <<id, "skipped">>)])
         ELSE IF ~GroupFound(groups, store[id].group_folder)
         THEN RunLoop(i + 1, due, store, groups, time,
                      [acc EXCEPT !.runs = logTaskRun(@, GroupMissingRun(id, time)),
                                  !.log = Append(@, <<id, "no group">>)])
         ELSE [acc EXCEPT !.i = i, !.started = id,
                          !.log = Append(@, <<id, "invoked">>)]

\* runTask 375-380: the input of the call, isMain: false
SchedInvocationOfOwner(folder) ==
    [caller |-> "scheduler", folder |-> folder,
     isMain |-> folder = MAIN_GROUP_FOLDER]

SchedInvocation(folder) ==
    [caller |-> "scheduler", folder |-> folder, isMain |-> FALSE]

\* What the loop leaves behind after RunLoop returned r
Continue(r, store, others, time) ==
    /\ taskRuns' = r.runs
    /\ tickLog' = r.log
    /\ tasks' = store
    /\ IF r.started = NoTask
       THEN \* 445: setTimeout(loop, SCHEDULER_POLL_INTERVAL)
            /\ pc' = "sleeping"
            /\ wake' = time + SCHEDULER_POLL_INTERVAL
            /\ idx' = 0
            /\ cur' = [task |-> NoTask, startTime |-> 0]
            /\ invocations' = others
            /\ UNCHANGED snapshotFile
       ELSE \* runTask 336-380: snapshot, then the container is spawned
            /\ pc' = "awaiting"
            /\ idx' = r.i
            /\ cur' = [task |-> r.started, startTime |-> time]
            /\ snapshotFile' = writeTasksSnapshot(SnapshotOf(store))
            /\ invocations' =
                   others \cup {SchedInvocation(store[r.started].group_folder)}
            /\ UNCHANGED wake

\* The instants at which a callback that is pending since `now` can run;
\* a timer never runs before it is due
Instants(from) == { t \in 0..MaxTime : t >= from /\ t >= now }

\* startSchedulerLoop 441-445: where the loop is after its catch block: the
\* setTimeout follows the try statement, so the loop sleeps until the next
\* tick
LoopAfterThrowStops == "stopped"

LoopAfterThrow == "sleeping"

\* startSchedulerLoop 445, 448: loop is called once at the start and then
\* by the timer it sets as its last statement, so a call is pending only
\* when no tick is running
LoopPendingAlways == TRUE

LoopPending == pc = "sleeping"

\* startSchedulerLoop 425-446: a tick in which getDueTasks throws
LoopTickThrows(time) ==
    /\ LoopPending
    /\ envOps < MaxEnvOps
    /\ envOps' = envOps + 1
    /\ now' = time
    /\ pc' = LoopAfterThrow
    /\ wake' = time + SCHEDULER_POLL_INTERVAL
    /\ tickLog' = <<<<NoTask, "threw">>>>
    /\ dueTasks' = <<>>
    /\ UNCHANGED <<tasks, registered, idx, cur, taskRuns, invocations,
                   snapshotFile, runVars, ipcVars, chanVars>>

\* startSchedulerLoop 425-446: a tick of the loop, run at instant `time`
LoopTick(time) ==
    /\ LoopPending
    /\ now' = time
    /\ \E due \in Orderings({t \in TaskIds : IsDue(tasks, t, time)}) :
          /\ dueTasks' = due
          /\ Continue(RunLoop(1, due, tasks, registered, time,
                              [i |-> 1, started |-> NoTask, runs |-> taskRuns,
                               log |-> <<>>]),
                      tasks, invocations, time)
    /\ UNCHANGED <<registered, envOps, runVars, ipcVars, chanVars>>

\* runTask 406-414: the next run; ok = FALSE when the computation throws
NextRunRearmsOnce(task, time) ==
    IF task.schedule_type = "interval"
    THEN [ok |-> TRUE, at |-> At(time + parseInt(task.schedule_value).n)]
    ELSE [ok |-> TRUE, at |-> At(time + SCHEDULER_POLL_INTERVAL)]

NextRunWithoutNow(task, time) ==
    IF task.schedule_type = "interval"
    THEN [ok |-> TRUE, at |-> At(parseInt(task.schedule_value).n)]
    ELSE [ok |-> TRUE, at |-> NULL]

NextRun(task, time) ==
    CASE task.schedule_type = "cron" ->
            IF CronParses(task.schedule_value)
            THEN [ok |-> TRUE, at |-> At(CronNext(time))]
            ELSE [ok |-> FALSE, at |-> NULL]
      [] task.schedule_type = "interval" ->
            LET ms == parseInt(task.schedule_value)
            IN  IF ms.nan
                THEN [ok |-> FALSE, at |-> NULL]  \* toISOString: RangeError
                ELSE [ok |-> TRUE, at |-> At(time + ms.n)]
      [] OTHER -> [ok |-> TRUE, at |-> NULL]

\* String.prototype.slice(0, n)
Slice0(s, n) == SubSeq(s, 1, IF Len(s) < n THEN Len(s) ELSE n)

\* runTask 418
ResultSummary(error, result) ==
    IF error # NoError THEN <<"Error: ", error>>
    ELSE IF Truthy(result) THEN <<"", Text(Slice0(result.s, SummaryLimit))>>
    ELSE <<"Completed", NoText>>

\* runTask 382-419 and the rest of the loop: the container has resolved
CapturedError(output) ==
    CASE output.status = "thrown" -> output.error  \* 393: the catch block
      [] output.status = "error" ->                  \* 383: output.error || ...
            IF output.error # NoError THEN output.error
            ELSE ErrText("Unknown error", 0, <<>>)
      [] OTHER -> NoError

ContainerDone(time, output) ==
    /\ pc = "awaiting"
    /\ output \in RareOutcomes => envOps < MaxEnvOps
    /\ envOps' = IF output \in RareOutcomes THEN envOps + 1 ELSE envOps
    /\ now' = time
    /\   LET task   == tasks[cur.task]
             error  == CapturedError(output)
             result == IF output.status \in {"error", "thrown"}
                       THEN NoText ELSE output.result
             run    == [task_id |-> cur.task, run_at |-> time,
                        duration_ms |-> time - cur.startTime,
                        status |-> IF error # NoError THEN "error" ELSE "success",
                        result |-> result, error |-> error]
             runs   == logTaskRun(taskRuns, run)
             next   == NextRun(task, time)
             others == invocations \ {SchedInvocation(task.group_folder)}
         IN  IF next.ok
             THEN Continue(RunLoop(idx + 1, dueTasks,
                                   updateTaskAfterRun(tasks, cur.task, next.at,
                                                      ResultSummary(error, result)),
                                   registered, time,
                                   [i |-> idx + 1, started |-> NoTask,
                                    runs |-> runs,
                                    log |-> tickLog]),
                           updateTaskAfterRun(tasks, cur.task, next.at,
                                              ResultSummary(error, result)),
                           others, time)
             ELSE \* the throw leaves runTask and the for loop; 441-445
                  /\ taskRuns' = runs
                  /\ pc' = LoopAfterThrow
                  /\ wake' = time + SCHEDULER_POLL_INTERVAL
                  /\ idx' = 0
                  /\ cur' = [task |-> NoTask, startTime |-> 0]
                  /\ invocations' = others
                  /\ tickLog' = Append(tickLog, <<cur.task, "threw">>)
                  /\ UNCHANGED <<tasks, snapshotFile>>
    /\ UNCHANGED <<registered, dueTasks, runVars, ipcVars, chanVars>>

\* The host applies a pause_task / resume_task / cancel_task envelope
\* (the IPC poller is not among the sources; specification 4.4)
PauseTask(t) ==
    /\ envOps < MaxEnvOps
    /\ envOps' = envOps + 1
    /\ tasks[t].exists /\ tasks[t].status = "active"
    /\ tasks' = [tasks EXCEPT ![t].status = "paused"]
    /\ UNCHANGED <<now, registered, pc, wake, dueTasks, idx, cur, taskRuns,
                   invocations, snapshotFile, tickLog, runVars, ipcVars,
                   chanVars>>

ResumeTask(t) ==
    /\ UNCHANGED envOps
    /\ tasks[t].exists /\ tasks[t].status = "paused"
    /\ tasks' = [tasks EXCEPT ![t].status = "active"]
    /\ UNCHANGED <<now, registered, pc, wake, dueTasks, idx, cur, taskRuns,
                   invocations, snapshotFile, tickLog, runVars, ipcVars,
                   chanVars>>

CancelTask(t) ==
    /\ envOps < MaxEnvOps
    /\ envOps' = envOps + 1
    /\ tasks[t].exists /\ tasks[t].status # "cancelled"
    /\ tasks' = [tasks EXCEPT ![t].status = "cancelled"]
    /\ UNCHANGED <<now, registered, pc, wake, dueTasks, idx, cur, taskRuns,
                   invocations, snapshotFile, tickLog, runVars, ipcVars,
                   chanVars>>

DeleteTask(t) ==
    /\ envOps < MaxEnvOps
    /\ envOps' = envOps + 1
    /\ tasks[t].exists
    /\ tasks' = [tasks EXCEPT ![t].exists = FALSE]
    /\ UNCHANGED <<now, registered, pc, wake, dueTasks, idx, cur, taskRuns,
                   invocations, snapshotFile, tickLog, runVars, ipcVars,
                   chanVars>>

\* A group is registered (restored) while the host runs
RegisterGroup(f) ==
    /\ envOps < MaxEnvOps
    /\ envOps' = envOps + 1
    /\ f \notin registered
    /\ registered' = registered \cup {f}
    /\ UNCHANGED <<now, tasks, pc, wake, dueTasks, idx, cur, taskRuns,
                   invocations, snapshotFile, tickLog, runVars, ipcVars,
                   chanVars>>

\* The Group Queue starts a chat-triggered invocation for a folder: not
\* while another invocation for that folder is in flight (specification 4.1)
ChatInvocation(folder) ==
    [caller |-> "chat", folder |-> folder, isMain |-> folder = MAIN_GROUP_FOLDER]

ChatInvoke(f) ==
    /\ envOps < MaxEnvOps
    /\ envOps' = envOps + 1
    /\ f \in registered
    /\ \A inv \in invocations : inv.folder # f
    /\ invocations' = invocations \cup {ChatInvocation(f)}
    /\ UNCHANGED <<now, tasks, registered, pc, wake, dueTasks, idx, cur,
                   taskRuns, snapshotFile, tickLog, runVars, ipcVars,
                   chanVars>>

ChatDone(f) ==
    /\ UNCHANGED envOps
    /\ ChatInvocation(f) \in invocations
    /\ invocations' = invocations \ {ChatInvocation(f)}
    /\ UNCHANGED <<now, tasks, registered, pc, wake, dueTasks, idx, cur,
                   taskRuns, snapshotFile, tickLog, runVars, ipcVars,
                   chanVars>>

-----------------------------------------------------------------------------
(* runContainerAgent: one call, its process and its promise *)

MaxLines == 3

MaxStderr == 1

\* config.ts 11: 300000 ms, five poll intervals
CONTAINER_TIMEOUT == 5

\* runContainerAgent 335: stderr.slice(-200)
StderrTail == 200

\* A line of standard output: blank, text that is no JSON, the result
\* objects {"status":"success","result":"A"}, {"status":"success",
\* "result":"B"}, {"status":"error","result":null,"error":...}, and the
\* JSON texts 42, null and {}
Lines == {"", "x", "A", "B", "E", "42", "null", "{}"}

\* containerConfig.timeout of the group: 0 when it is not set
GroupTimeouts == {0, 2}

ExitCodes == {0, 1, 0 - 1}  \* -1: code is null, the process died of a signal

\* Host paths, as lists of their components
GroupDir(folder) == <<"groups", folder>>

GlobalClaudeMd == <<"groups", "CLAUDE.md">>

ClaudeDir == <<"HOME", ".claude">>

GmailDir == <<"HOME", ".gmail-mcp">>

IpcDir == <<"data", "ipc">>

\* hostPath values of additionalMounts, and where they resolve to
ExtraPaths == { <<"/data">>, <<"~", "docs">> }

\* buildVolumeMounts 229-232: a leading ~ is the home directory
ResolveHome(hostPath) ==
    IF Head(hostPath) = "~" THEN <<"HOME">> \o Tail(hostPath) ELSE hostPath

\* The paths fs.existsSync is asked about: the three of every call and
\* those of the additional mounts
BasePaths == {GlobalClaudeMd, ClaudeDir, GmailDir}

HostPaths == BasePaths \cup {ResolveHome(h) : h \in ExtraPaths}

\* An entry of containerConfig.additionalMounts; readonly is true, false
\* or not given
ExtraMounts ==
    [hostPath : ExtraPaths, containerPath : {"x"},
     readonly : {"true", "false", "undefined"}]

MaxExtra == 2

ExtraLists == UNION { [1..n -> ExtraMounts] : n \in 0..MaxExtra }

\* RegisteredGroup, as far as the runner reads it
Groups ==
    [folder : Folders,
     containerConfig : [timeout : GroupTimeouts, additionalMounts : ExtraLists]]

PlainGroup(folder, timeout) ==
    [folder |-> folder,
     containerConfig |-> [timeout |-> timeout, additionalMounts |-> <<>>]]

Mount(hostPath, containerPath, readonly) ==
    [hostPath |-> hostPath, containerPath |-> containerPath,
     readonly |-> readonly]

\* buildVolumeMounts 238: readonly unless the entry says readonly: false
ExtraReadonlyIfAsked(mount) == mount.readonly = "true"

ExtraReadonly(mount) == mount.readonly # "false"

\* buildVolumeMounts 226-244: the additional mounts whose path exists
RECURSIVE ExtraVolumeMounts(_, _)
ExtraVolumeMounts(list, fs) ==
    IF list = <<>> THEN <<>>
    ELSE LET mount    == Head(list)
             hostPath == ResolveHome(mount.hostPath)
         IN  (IF hostPath \in fs
              THEN <<Mount(hostPath, <<"/workspace/extra", mount.containerPath>>,
                           ExtraReadonly(mount))>>
              ELSE <<>>)
             \o ExtraVolumeMounts(Tail(list), fs)

\* buildVolumeMounts 186-194: the global CLAUDE.md
GlobalMount(isMain, fs) ==
    IF GlobalClaudeMd \in fs
    THEN <<Mount(GlobalClaudeMd, <<"/workspace/global/CLAUDE.md">>, ~isMain)>>
    ELSE <<>>

\* buildVolumeMounts 175-247
buildVolumeMounts(group, isMain, fs) ==
    <<Mount(GroupDir(group.folder), <<"/workspace/group">>, FALSE)>>
    \o GlobalMount(isMain, fs)
    \o (IF ClaudeDir \in fs
        THEN <<Mount(ClaudeDir, <<"/root/.claude">>, FALSE)>> ELSE <<>>)
    \o (IF GmailDir \in fs
        THEN <<Mount(GmailDir, <<"/root/.gmail-mcp">>, FALSE)>> ELSE <<>>)
    \o <<Mount(IpcDir, <<"/workspace/ipc">>, FALSE)>>
    \o ExtraVolumeMounts(group.containerConfig.additionalMounts, fs)

\* buildContainerArgs 253-256: one -v argument per mount
buildContainerArgs(ms) ==
    [i \in DOMAIN ms |->
        [hostPath |-> ms[i].hostPath, containerPath |-> ms[i].containerPath,
         mode |-> IF ms[i].readonly THEN ":ro" ELSE ""]]

\* JSON.parse(line): ok = FALSE for a SyntaxError
JSONparse(line) ==
    CASE line = "A" ->
            [ok |-> TRUE, null |-> FALSE,
             value |-> Output("success", Text(<<"A">>), NoError)]
      [] line = "B" ->
            [ok |-> TRUE, null |-> FALSE,
             value |-> Output("success", Text(<<"B">>), NoError)]
      [] line = "E" ->
            [ok |-> TRUE, null |-> FALSE,
             value |-> Output("error", NoText,
                              ErrText("agent failed", 0, <<>>))]
      [] line \in {"42", "{}"} ->
            \* a value without status, result and error properties
            [ok |-> TRUE, null |-> FALSE,
             value |-> Output("undefined", NoText, NoError)]
      [] line = "null" ->
            [ok |-> TRUE, null |-> TRUE,
             value |-> Output("undefined", NoText, NoError)]
      [] OTHER ->
            [ok |-> FALSE, null |-> FALSE,
             value |-> Output("undefined", NoText, NoError)]

\* String.prototype.trim on the output: blank lines at both ends go
RECURSIVE TrimStart(_)
TrimStart(ls) ==
    IF Len(ls) > 0 /\ Head(ls) = "" THEN TrimStart(Tail(ls)) ELSE ls

RECURSIVE TrimEnd(_)
TrimEnd(ls) ==
    IF Len(ls) > 0 /\ ls[Len(ls)] = ""
    THEN TrimEnd(SubSeq(ls, 1, Len(ls) - 1))
    ELSE ls

Trim(ls) == TrimEnd(TrimStart(ls))

\* split('\n'): the empty string splits into one empty line
Split(ls) == IF Len(ls) = 0 THEN <<"">> ELSE ls

\* slice(-n)
SliceLast(s, n) ==
    IF Len(s) <= n THEN s ELSE SubSeq(s, Len(s) - n + 1, Len(s))

\* runContainerAgent 343-344
jsonLineFirst(out) ==
    LET lines == Split(Trim(out)) IN lines[1]

jsonLine(out) ==
    LET lines == Split(Trim(out)) IN lines[Len(lines)]

ParseFailure(why) ==
    Output("error", NoText, ErrText("Failed to parse container output", 0, <<why>>))

\* runContainerAgent 341-367: the try block and its catch
ParseOutputUncaught(out) ==
    LET parsed == JSONparse(jsonLine(out))
    IN  IF parsed.ok /\ ~parsed.null THEN parsed.value
        ELSE Output("thrown", NoText, NoError)

ParseOutput(out) ==
    LET parsed == JSONparse(jsonLine(out))
    IN  IF ~parsed.ok THEN ParseFailure("SyntaxError")
        ELSE IF parsed.null THEN ParseFailure("TypeError")  \* 350: output.status
        ELSE parsed.value

ExitError(code, err) ==
    Output("error", NoText,
           ErrText("Container exited with code", code, SliceLast(err, StderrTail)))

\* runContainerAgent 320-368: what the close handler passes to resolve
CloseResultParseFirst(code, out, err) ==
    IF JSONparse(jsonLine(out)).ok THEN ParseOutput(out) ELSE ExitError(code, err)

CloseResult(code, out, err) ==
    IF code # 0 THEN ExitError(code, err) ELSE ParseOutput(out)

\* runContainerAgent 313-317
TimeoutResult ==
    Output("error", NoText,
           ErrText("Container timed out after", CONTAINER_TIMEOUT, <<>>))

\* runContainerAgent 373-377
SpawnErrorThrown ==
    Output("thrown", NoText, ErrText("Container spawn error", 0, <<"err.message">>))

SpawnErrorResult ==
    Output("error", NoText, ErrText("Container spawn error", 0, <<"err.message">>))

Pending == Output("pending", NoText, NoError)

\* runContainerAgent 284: the promise takes the first value resolve is given
PromiseValueLast(rs) ==
    IF Len(rs) = 0 THEN Pending ELSE rs[Len(rs)].value

PromiseValue(rs) ==
    IF Len(rs) = 0 THEN Pending ELSE rs[1].value

\* runContainerAgent 264-318: the call builds the mounts and the
\* arguments, spawns the process and arms the timer
RunnerCall(group, isMain, fs, spawned) ==
    /\ proc = "none"
    /\ call' = [group |-> group, isMain |-> isMain, fs |-> fs]
    /\ mounts' = buildVolumeMounts(group, isMain, fs)
    /\ containerArgs' = buildContainerArgs(buildVolumeMounts(group, isMain, fs))
    /\ proc' = IF spawned THEN "alive" ELSE "failed"
    /\ deadline' = IF group.containerConfig.timeout # 0
                   THEN group.containerConfig.timeout
                   ELSE CONTAINER_TIMEOUT
    /\ timer' = "armed"
    /\ UNCHANGED <<stdout, stderr, resolves, lastEvent, schedVars, ipcVars,
                   chanVars>>

\* 296-298
StdoutData(line) ==
    /\ proc = "alive"
    /\ Len(stdout) < MaxLines
    /\ stdout' = Append(stdout, line)
    /\ UNCHANGED <<proc, deadline, timer, stderr, resolves, lastEvent,
                   callVars, schedVars, ipcVars, chanVars>>

\* 300-307
StderrData ==
    /\ proc = "alive"
    /\ Len(stderr) < MaxStderr
    /\ stderr' = Append(stderr, "e")
    /\ UNCHANGED <<proc, deadline, timer, stdout, resolves, lastEvent,
                   callVars, schedVars, ipcVars, chanVars>>

\* 310-318: the deadline passes before the timer is cleared.  A spawn that
\* failed emits its error on the next tick of the event loop, before any
\* timer can run
TimerFire ==
    /\ timer = "armed"
    /\ proc # "failed"
    /\ timer' = "fired"
    /\ resolves' = Append(resolves, [by |-> "timeout", value |-> TimeoutResult])
    /\ lastEvent' = [event |-> "timeout", code |-> 0]
    /\ UNCHANGED <<proc, deadline, stdout, stderr, callVars, schedVars,
                   ipcVars, chanVars>>

\* 320-368: the process has exited and its streams are closed; after a
\* spawn that failed, close follows the error event
Close(code) ==
    /\ proc \in {"alive", "failed"}
    /\ proc = "failed" =>
          /\ code # 0
          /\ \E i \in DOMAIN resolves : resolves[i].by = "error"
    /\ proc' = "closed"
    /\ timer' = IF timer = "armed" THEN "cleared" ELSE timer
    /\ resolves' = Append(resolves, [by |-> "close",
                                     value |-> CloseResult(code, stdout, stderr)])
    /\ lastEvent' = [event |-> "close", code |-> code]
    /\ UNCHANGED <<deadline, stdout, stderr, callVars, schedVars, ipcVars, chanVars>>

\* 370-378: the process could not be spawned or killed
ErrorEvent ==
    /\ proc \in {"alive", "failed"}
    /\ \A i \in DOMAIN resolves : resolves[i].by # "error"
    /\ timer' = IF timer = "armed" THEN "cleared" ELSE timer
    /\ resolves' = Append(resolves, [by |-> "error", value |-> SpawnErrorResult])
    /\ lastEvent' = [event |-> "error", code |-> 0]
    /\ UNCHANGED <<proc, deadline, stdout, stderr, callVars, schedVars,
                   ipcVars, chanVars>>

RunnerIdle ==
    /\ call = [group |-> PlainGroup(MAIN_GROUP_FOLDER, 0), isMain |-> FALSE,
               fs |-> {}]
    /\ mounts = <<>>
    /\ containerArgs = <<>>
    /\ proc = "none"
    /\ deadline = 0
    /\ timer = "none"
    /\ stdout = <<>>
    /\ stderr = <<>>
    /\ resolves = <<>>
    /\ lastEvent = [event |-> "none", code |-> 0]

RunnerNext ==
    \/ \E timeout \in GroupTimeouts, spawned \in BOOLEAN :
          RunnerCall(PlainGroup(MAIN_GROUP_FOLDER, timeout), FALSE, HostPaths,
                     spawned)
    \/ \E line \in Lines : StdoutData(line)
    \/ StderrData
    \/ TimerFire
    \/ \E code \in ExitCodes : Close(code)
    \/ ErrorEvent

-----------------------------------------------------------------------------
(* The agent-side IPC tools: writeIpcFile and the tools that call it.      *)
(* A tool handler runs inside the isolated process; the host poller and    *)
(* a kill of the process interleave with it between two system calls.      *)

MaxCalls == 2

\* createIpcMcp 37-38: the context of the agent that serves the tools.  The
\* host marks as main only an invocation for the main group's folder
Contexts ==
    { ctx \in [groupFolder : Folders, isMain : BOOLEAN, chatJid : {"jid"}]
      : ctx.isMain => ctx.groupFolder = MAIN_GROUP_FOLDER }

\* target_group of schedule_task: "" when the argument is not given
TargetArgs == {""} \cup Folders

\* send_message 51-58
MessageData(ctx, args) ==
    [type |-> "message", chatJid |-> ctx.chatJid, text |-> args.text,
     groupFolder |-> ctx.groupFolder, timestamp |-> "iso"]

\* schedule_task 83
targetGroupAny(ctx, args) ==
    IF args.target_group # "" THEN args.target_group ELSE ctx.groupFolder

targetGroup(ctx, args) ==
    IF ctx.isMain /\ args.target_group # ""
    THEN args.target_group
    ELSE ctx.groupFolder

\* schedule_task 85-94
ScheduleData(ctx, args) ==
    [type |-> "schedule_task", prompt |-> args.prompt,
     schedule_type |-> args.schedule_type,
     schedule_value |-> args.schedule_value,
     groupFolder |-> targetGroup(ctx, args), chatJid |-> ctx.chatJid,
     createdBy |-> ctx.groupFolder, timestamp |-> "iso"]

\* pause_task 171-177, resume_task 198-204, cancel_task 225-231
TaskDataAsMain(type, ctx, args) ==
    [type |-> type, taskId |-> args.task_id, groupFolder |-> ctx.groupFolder,
     isMain |-> TRUE, timestamp |-> "iso"]

TaskData(type, ctx, args) ==
    [type |-> type, taskId |-> args.task_id, groupFolder |-> ctx.groupFolder,
     isMain |-> ctx.isMain, timestamp |-> "iso"]

Tools == {"send_message", "schedule_task", "pause_task", "resume_task",
          "cancel_task"}

\* The arguments a tool can be called with; a field a tool does not take
\* is the empty string
NoArgs ==
    [text |-> "", prompt |-> "", schedule_type |-> "", schedule_value |-> "",
     target_group |-> "", task_id |-> ""]

ArgsOf(tool) ==
    CASE tool = "send_message" -> { [NoArgs EXCEPT !.text = "hi"] }
      [] tool = "schedule_task" ->
            { [NoArgs EXCEPT !.prompt = "p", !.schedule_type = "once",
                             !.schedule_value = "iso", !.target_group = g]
              : g \in TargetArgs }
      [] OTHER -> { [NoArgs EXCEPT !.task_id = t] : t \in TaskIds }

\* createIpcMcp 51-58, 85-94, 171-177, 198-204, 225-231: the envelope the
\* tool hands to writeIpcFile
EnvelopeOf(tool, ctx, args) ==
    CASE tool = "send_message" -> MessageData(ctx, args)
      [] tool = "schedule_task" -> ScheduleData(ctx, args)
      [] OTHER -> TaskData(tool, ctx, args)

\* writeIpcFile 26-30: the final path and the temporary path of call n
FilePath(n) == <<n, ".json">>

TempPathSame(n) == FilePath(n)

TempPath(n) == <<n, ".json.tmp">>

HasFile(path) == \E f \in files : f.path = path

FileAt(path) == CHOOSE f \in files : f.path = path

\* The directory after writing `content` of `data` to `path` (open with
\* truncation, then write) or after removing it
PutFile(dir, path, content, data) ==
    {f \in dir : f.path # path}
        \cup {[path |-> path, content |-> content, data |-> data]}

\* A tool is called: writeIpcFile 23-31 opens the temporary file
ToolCall(tool, ctx, args) ==
    /\ calls.pc \in {"idle", "done", "crashed"}
    /\ calls.n < MaxCalls
    /\ LET n    == calls.n + 1
           data == EnvelopeOf(tool, ctx, args)
       IN  /\ calls' = [pc |-> "opened", n |-> n, tool |-> tool, ctx |-> ctx,
                        args |-> args, data |-> data]
           /\ files' = PutFile(files, TempPath(n), "empty", data)
    /\ UNCHANGED <<polled, listed, schedVars, runVars, chanVars>>

\* writeIpcFile 31: writeFileSync writes the text in one or more writes
WriteSome ==
    /\ calls.pc = "opened"
    /\ FileAt(TempPath(calls.n)).content = "empty"
    /\ files' = PutFile(files, TempPath(calls.n), "partial", calls.data)
    /\ UNCHANGED <<calls, polled, listed, schedVars, runVars, chanVars>>

WriteRest ==
    /\ calls.pc = "opened"
    /\ calls' = [calls EXCEPT !.pc = "written"]
    /\ files' = PutFile(files, TempPath(calls.n), "complete", calls.data)
    /\ UNCHANGED <<polled, listed, schedVars, runVars, chanVars>>

\* writeIpcFile 32: renameSync(tempPath, filepath)
Rename ==
    /\ calls.pc = "written"
    /\ calls' = [calls EXCEPT !.pc = "done"]
    /\ LET temp == FileAt(TempPath(calls.n)) IN
         files' = PutFile({f \in files : f.path # TempPath(calls.n)},
                          FilePath(calls.n), temp.content, temp.data)
    /\ UNCHANGED <<polled, listed, schedVars, runVars, chanVars>>

\* The isolated process is killed in the middle of writeIpcFile
Crash ==
    /\ calls.pc \in {"opened", "written"}
    /\ calls' = [calls EXCEPT !.pc = "crashed"]
    /\ UNCHANGED <<files, polled, listed, schedVars, runVars, chanVars>>

\* The status a pause_task / resume_task / cancel_task envelope asks for
\* and the statuses it applies to (specification 4.4: active <-> paused,
\* active | paused -> cancelled)
RequestedStatus(type) ==
    CASE type = "pause_task"  -> [from |-> {"active"}, to |-> "paused"]
      [] type = "resume_task" -> [from |-> {"paused"}, to |-> "active"]
      [] OTHER                -> [from |-> {"active", "paused"}, to |-> "cancelled"]

\* The host dispatches an envelope (specification 4.3): a task request acts
\* only on a task of the creator's own working folder, unless the creator
\* is the main conversation.  A schedule_task envelope creates a row with a
\* new id and a message envelope sends a text: neither changes a row of
\* the table.
Dispatch(store, data) ==
    IF data.type \in {"pause_task", "resume_task", "cancel_task"}
    THEN LET id == data.taskId IN
         IF /\ store[id].exists
            /\ data.isMain \/ store[id].group_folder = data.groupFolder
            /\ store[id].status \in RequestedStatus(data.type).from
         THEN [store EXCEPT ![id].status = RequestedStatus(data.type).to]
         ELSE store
    ELSE store

\* The host poller reads a file that carries a final name, dispatches its
\* envelope and removes it (the poller is not among the sources;
\* specification 4.3)
Poll(f) ==
    /\ f \in files
    /\ f.path[2] = ".json"
    /\ polled' = polled \cup {f}
    /\ files' = files \ {f}
    /\ tasks' = IF f.content = "complete" THEN Dispatch(tasks, f.data) ELSE tasks
    /\ UNCHANGED <<now, registered, pc, wake, dueTasks, idx, cur, taskRuns,
                   invocations, snapshotFile, tickLog, envOps, calls, listed,
                   runVars, chanVars>>

NoData == [type |-> "none"]

\* The contents current_tasks.json can have when list_tasks reads it: no
\* file, the array writeTasksSnapshot wrote, a text that is no JSON (the
\* file while it is being rewritten) or JSON that is no array
SnapshotRows == {NoRow} \cup { TaskRow(f, Once) : f \in Folders }

SnapshotFiles ==
    { NoSnapshot,
      [state |-> "garbled", entries |-> {}],
      [state |-> "no array", entries |-> {}] }
    \cup { writeTasksSnapshot(SnapshotOf(table))
           : table \in [TaskIds -> SnapshotRows] }

\* list_tasks 129-131: the entries the caller is shown
VisibleTasksAll(ctx, allTasks) == allTasks

VisibleTasks(ctx, allTasks) ==
    IF ctx.isMain THEN allTasks
    ELSE { t \in allTasks : t.groupFolder = ctx.groupFolder }

\* list_tasks 142-144: the line of an entry
FormatTask(t) ==
    [id |-> t.id, prompt |-> t.prompt, schedule_type |-> t.schedule_type,
     schedule_value |-> t.schedule_value, status |-> t.status,
     next |-> IF t.next_run = NULL THEN "N/A" ELSE "iso"]

ToolText(text, listing) == [text |-> text, lines |-> listing]

\* list_tasks 112-159: the text the tool returns
list_tasks(ctx, file) ==
    IF file.state = "absent"
    THEN ToolText("No scheduled tasks found.", {})
    ELSE IF file.state # "written"
    THEN \* JSON.parse, filter or map throws: the catch block
         ToolText("Error reading tasks", {})
    ELSE LET tasksShown == VisibleTasks(ctx, file.entries) IN
         IF tasksShown = {}
         THEN ToolText("No scheduled tasks found.", {})
         ELSE ToolText("Scheduled tasks:", { FormatTask(t) : t \in tasksShown })

NotListed ==
    [called |-> FALSE,
     ctx |-> [groupFolder |-> MAIN_GROUP_FOLDER, isMain |-> TRUE,
              chatJid |-> "jid"],
     file |-> NoSnapshot, result |-> ToolText("", {})]

\* The list_tasks tool is called
ListTasks(ctx) ==
    /\ listed' = [called |-> TRUE, ctx |-> ctx, file |-> snapshotFile,
                  result |-> list_tasks(ctx, snapshotFile)]
    /\ UNCHANGED <<calls, files, polled, schedVars, runVars, chanVars>>

\* The host (or anything else) leaves current_tasks.json with some content
SnapshotChanges(file) ==
    /\ snapshotFile' = file
    /\ UNCHANGED <<now, tasks, registered, pc, wake, dueTasks, idx, cur,
                   taskRuns, invocations, tickLog, envOps, ipcVars, runVars,
                   chanVars>>

\* writeTasksSnapshot 395, as a process that reads the file meanwhile sees
\* it: fs.writeFileSync opens the file under its final name with
\* truncation, writes the text in one or more writes and closes it.  While
\* the text is incomplete, entries is the array being written.
SnapshotTruncate(entries) ==
    /\ snapshotFile.state \in {"absent", "written"}
    /\ snapshotFile' = [state |-> "empty", entries |-> entries]
    /\ UNCHANGED <<now, tasks, registered, pc, wake, dueTasks, idx, cur,
                   taskRuns, invocations, tickLog, envOps, ipcVars, runVars,
                   chanVars>>

SnapshotWriteSome ==
    /\ snapshotFile.state = "empty"
    /\ snapshotFile' = [snapshotFile EXCEPT !.state = "partial"]
    /\ UNCHANGED <<now, tasks, registered, pc, wake, dueTasks, idx, cur,
                   taskRuns, invocations, tickLog, envOps, ipcVars, runVars,
                   chanVars>>

SnapshotWriteRest ==
    /\ snapshotFile.state \in {"empty", "partial"}
    /\ snapshotFile' = writeTasksSnapshot(snapshotFile.entries)
    /\ UNCHANGED <<now, tasks, registered, pc, wake, dueTasks, idx, cur,
                   taskRuns, invocations, tickLog, envOps, ipcVars, runVars,
                   chanVars>>

IpcIdle ==
    /\ calls = [pc |-> "idle", n |-> 0, tool |-> "none",
                ctx |-> [groupFolder |-> MAIN_GROUP_FOLDER, isMain |-> TRUE,
                         chatJid |-> "jid"],
                args |-> NoArgs, data |-> NoData]
    /\ files = {}
    /\ polled = {}
    /\ listed = NotListed

IpcNext ==
    \/ \E tool \in Tools, ctx \in Contexts :
          \E args \in ArgsOf(tool) : ToolCall(tool, ctx, args)
    \/ WriteSome
    \/ WriteRest
    \/ Rename
    \/ Crash
    \/ \E f \in files : Poll(f)

-----------------------------------------------------------------------------
(* The Feishu channel: the im.message.receive_v1 handler.  The adapter      *)
(* calls the handler for an event when the event arrives; the handler is   *)
(* an async function, so the calls for two events overlap when the first   *)
(* one awaits a lookup over the network.                                    *)

MaxMessages == 3

MessageIds == 1..MaxMessages

\* chat_id values: one that the channel owns (oc_...) and one it does not
ChatIds == {"oc_1", "x_1"}

\* sender_id.open_id values: a user and the bot itself
SenderIds == {"user", "bot"}

\* An im.message.receive_v1 event
MessageEvent(id, chat, sender) ==
    [message_id |-> id, chat_id |-> chat, open_id |-> sender]

\* handleMessageEvent 168-171: the bot's own messages and the chats the
\* channel does not own are dropped
Dropped(event) ==
    \/ event.open_id = "bot"
    \/ event.chat_id \notin {"oc_1"}

\* handleMessageEvent 201-209
NewMessage(event) ==
    [id |-> event.message_id, chat_jid |-> event.chat_id,
     sender |-> event.open_id]

\* setupWebSocket 126-134 and handleMessageEvent 164-178: the adapter
\* delivers an event; the handler runs up to its first lookup
Deliver(event) ==
    /\ \A i \in DOMAIN delivered : delivered[i].message_id # event.message_id
    /\ delivered' = Append(delivered, event)
    /\ handlers' = [handlers EXCEPT ![event.message_id] =
                        IF Dropped(event) THEN "returned" ELSE "resolveSenderName"]
    /\ UNCHANGED <<received, schedVars, runVars, ipcVars>>

\* handleMessageEvent 178-179: the sender's name has arrived, the chat's
\* name is asked for
SenderNameResolved(id) ==
    /\ handlers[id] = "resolveSenderName"
    /\ handlers' = [handlers EXCEPT ![id] = "getChatName"]
    /\ UNCHANGED <<delivered, received, schedVars, runVars, ipcVars>>

\* handleMessageEvent 179-211: the chat's name has arrived; the message is
\* built and passed to the callback
ChatNameResolved(id) ==
    /\ handlers[id] = "getChatName"
    /\ handlers' = [handlers EXCEPT ![id] = "returned"]
    /\ \E i \in DOMAIN delivered :
          /\ delivered[i].message_id = id
          /\ received' = Append(received, NewMessage(delivered[i]))
    /\ UNCHANGED <<delivered, schedVars, runVars, ipcVars>>

ChannelIdle ==
    /\ delivered = <<>>
    /\ handlers = [id \in MessageIds |-> "none"]
    /\ received = <<>>

ChannelNext ==
    \/ \E id \in MessageIds, chat \in ChatIds, sender \in SenderIds :
          Deliver(MessageEvent(id, chat, sender))
    \/ \E id \in MessageIds : SenderNameResolved(id)
    \/ \E id \in MessageIds : ChatNameResolved(id)

-----------------------------------------------------------------------------
(* Initial states and specifications *)

\* The tables the runs start from: one task with any schedule in any folder,
\* or two tasks that are due together, the second a well-formed interval
\* task of the main group
TaskTables ==
    { [t \in TaskIds |-> IF t = "t1" THEN TaskRow(f, s) ELSE NoRow]
      : f \in Folders, s \in Schedules }
    \cup
    { [t \in TaskIds |->
          IF t = "t1" THEN first ELSE TaskRow(MAIN_GROUP_FOLDER, Every2)]
      : first \in { TaskRow(MAIN_GROUP_FOLDER, Once),
                    TaskRow(MAIN_GROUP_FOLDER, Every2),
                    TaskRow(MAIN_GROUP_FOLDER, BadCron),
                    TaskRow("g1", Once) } }

SchedStart(table) ==
    /\ now = 0
    /\ tasks = table
    /\ registered = {MAIN_GROUP_FOLDER}
    /\ pc = "sleeping"
    /\ wake = 0
    /\ dueTasks = <<>>
    /\ idx = 0
    /\ cur = [task |-> NoTask, startTime |-> 0]
    /\ taskRuns = <<>>
    /\ invocations = {}
    /\ snapshotFile = NoSnapshot
    /\ tickLog = <<>>
    /\ envOps = 0

SchedInit == \E table \in TaskTables : SchedStart(table)

\* The scheduler of a host without tasks, which then never runs one
SchedIdle == SchedStart([t \in TaskIds |-> NoRow])

SchedNext ==
    \/ \E time \in Instants(wake) : LoopTick(time)
    \/ \E time \in Instants(wake) : LoopTickThrows(time)
    \/ \E time \in Instants(now), output \in RunnerOutcomes :
          ContainerDone(time, output)
    \/ \E t \in TaskIds : PauseTask(t)
    \/ \E t \in TaskIds : ResumeTask(t)
    \/ \E t \in TaskIds : CancelTask(t)
    \/ \E t \in TaskIds : DeleteTask(t)
    \/ \E f \in Folders : RegisterGroup(f)
    \/ \E f \in Folders : ChatInvoke(f)
    \/ \E f \in Folders : ChatDone(f)

\* The scheduler with its environment
Init == SchedInit /\ RunnerIdle /\ IpcIdle /\ ChannelIdle

Next == SchedNext

Spec == Init /\ [][Next]_vars

\* The event loop runs a timer callback that is due and settles every
\* runContainerAgent promise (its deadline timer resolves it at the latest)
TimerCallback ==
    \E time \in Instants(wake) : LoopTick(time) \/ LoopTickThrows(time)

PromiseSettles ==
    \E time \in Instants(now), output \in RunnerOutcomes :
        ContainerDone(time, output)

\* The loop on its own, with the failures of its steps: a request of the
\* environment never enables or disables a step of the loop
LiveNext == TimerCallback \/ PromiseSettles

SpecLive ==
    Init /\ [][LiveNext]_vars /\ WF_vars(TimerCallback) /\ WF_vars(PromiseSettles)

\* One call of the container runner
RunnerInit == SchedIdle /\ RunnerIdle /\ IpcIdle /\ ChannelIdle

SpecRunner == RunnerInit /\ [][RunnerNext]_vars

\* The event loop runs the timeout callback once the deadline has passed,
\* and emits the error of a spawn that failed
SpawnFailure == proc = "failed" /\ ErrorEvent

SpecRunnerLive ==
    RunnerInit /\ [][RunnerNext]_vars /\ WF_vars(TimerFire) /\ WF_vars(SpawnFailure)

\* The start of a call, for every group configuration, privilege and state
\* of the host's file system
MountsNext ==
    /\ proc = "none"
    /\ \E group \in Groups, isMain \in BOOLEAN, fs \in SUBSET HostPaths,
          spawned \in BOOLEAN :
           RunnerCall(group, isMain, fs, spawned)

SpecMounts == RunnerInit /\ [][MountsNext]_vars

\* The tool calls of isolated processes
\* and the host poller: one task of the main group, one of another group
IpcTable ==
    [t \in TaskIds |-> IF t = "t1" THEN TaskRow(MAIN_GROUP_FOLDER, Once)
                                   ELSE TaskRow("g1", Every2)]

IpcInit == SchedStart(IpcTable) /\ RunnerIdle /\ IpcIdle /\ ChannelIdle

SpecIpc == IpcInit /\ [][IpcNext]_vars

\* The same, when every tool call comes from a conversation that is not
\* privileged and whose working folder is not the main group's
GuestContexts ==
    { ctx \in Contexts : ~ctx.isMain /\ ctx.groupFolder # MAIN_GROUP_FOLDER }

GuestNext ==
    \/ \E tool \in Tools, ctx \in GuestContexts :
          \E args \in ArgsOf(tool) : ToolCall(tool, ctx, args)
    \/ WriteSome
    \/ WriteRest
    \/ Rename
    \/ Crash
    \/ \E f \in files : Poll(f)

SpecGuestIpc == IpcInit /\ [][GuestNext]_vars

\* list_tasks calls of any conversation over any content of the snapshot
ListNext ==
    \/ \E file \in SnapshotFiles : SnapshotChanges(file)
    \/ \E ctx \in Contexts : ListTasks(ctx)

SpecList == IpcInit /\ [][ListNext]_vars

\* list_tasks calls of running containers while the host, on behalf of a
\* scheduler run, writes the snapshot into the IPC directory they share
SnapshotNext ==
    \/ \E table \in [TaskIds -> SnapshotRows] : SnapshotTruncate(SnapshotOf(table))
    \/ SnapshotWriteSome
    \/ SnapshotWriteRest
    \/ \E ctx \in Contexts : ListTasks(ctx)

SpecSnapshot == IpcInit /\ [][SnapshotNext]_vars

\* The channel's handlers, on a host that does nothing else
SpecChannel == RunnerInit /\ [][ChannelNext]_vars

-----------------------------------------------------------------------------
(* Properties of the scheduler (Spec) *)

\* The positions in the TaskRun log that belong to task t
RunIndexes(t) == { i \in DOMAIN taskRuns : taskRuns[i].task_id = t }

\* The latest TaskRun of task t (t has one)
LastRun(t) ==
    taskRuns[CHOOSE i \in RunIndexes(t) : \A j \in RunIndexes(t) : j <= i]

\* A TaskRun of a run that reached the Container Runner, as opposed to the
\* one recorded when the owning group is missing
ContainerRun(run) == run.error.kind # "Group not found"

OnceTasks == { t \in TaskIds : tasks[t].schedule_type = "once" }

IntervalTasks ==
    { t \in TaskIds : /\ tasks[t].exists
                      /\ tasks[t].schedule_type = "interval"
                      /\ ~parseInt(tasks[t].schedule_value).nan }

\* C1: at every instant at most one Container Runner invocation is active
\* per working folder, whoever started it.  The scheduler starts its
\* invocation without looking at the invocations in flight, so this fails
\* when a chat-triggered invocation of the task's folder is running.
C1_OneInvocationPerFolder ==
    \A f \in Folders :
        Cardinality({ inv \in invocations : inv.folder = f }) <= 1

\* C2 as stated: a once task that has any TaskRun, the group-missing error
\* run included, has next_run null and has exactly that one TaskRun.
C2_OnceDoneAfterAnyRun ==
    \A t \in OnceTasks :
        RunIndexes(t) # {} =>
            /\ tasks[t].exists => tasks[t].next_run = NULL
            /\ Cardinality(RunIndexes(t)) = 1

\* C2: a once task that has had one run that reached the Container Runner
\* (success or error) has next_run null, is not run again and gets no
\* further TaskRun: that run is its only container run, it is the last
\* TaskRun of the task, and the task is not running.  (The error run
\* recorded when the owning group is missing leaves next_run as it was.)
C2_OnceDoneAfterContainerRun ==
    \A t \in OnceTasks :
        (\E i \in RunIndexes(t) : ContainerRun(taskRuns[i])) =>
            /\ tasks[t].exists => tasks[t].next_run = NULL
            /\ Cardinality({ i \in RunIndexes(t) : ContainerRun(taskRuns[i]) }) = 1
            /\ ContainerRun(LastRun(t))
            /\ ~(pc = "awaiting" /\ cur.task = t)

\* A once task has had its container run and a later tick found nothing due
C2_LaterTickWitness ==
    \E t \in OnceTasks :
        /\ tasks[t].exists
        /\ RunIndexes(t) # {}
        /\ ContainerRun(LastRun(t))
        /\ pc = "sleeping"
        /\ dueTasks = <<>>
        /\ now > LastRun(t).run_at

\* C3: a task that is paused, cancelled or deleted when the loop reaches it
\* is not run: in no step does a task that is not active (and is not the
\* one whose container is being awaited) get a TaskRun or a container.
C3_RecheckBeforeRun ==
    [][\A t \in TaskIds :
          (t # cur.task /\ ~(tasks[t].exists /\ tasks[t].status = "active")) =>
              /\ RunIndexes(t)' = RunIndexes(t)
              /\ ~(pc' = "awaiting" /\ cur'.task = t)]_vars

\* A tick selected two tasks, ran the first and skipped the second, which
\* had stopped being active while the first one's container was awaited
C3_SkippedWitness ==
    /\ Len(dueTasks) = 2
    /\ \E t \in TaskIds :
          /\ dueTasks[2] = t
          /\ \E k \in DOMAIN tickLog : tickLog[k] = <<t, "skipped">>
          /\ RunIndexes(t) = {}
          /\ RunIndexes(dueTasks[1]) # {}

\* C8 as stated, run_time being the start of the run (startTime): after a
\* successful run next_run is within one tick of startTime + ms.
C8_NextRunFromStart ==
    \A t \in IntervalTasks :
        (RunIndexes(t) # {} /\ LastRun(t).status = "success") =>
            \E at \in tasks[t].next_run :
                LET start == LastRun(t).run_at - LastRun(t).duration_ms
                    due   == start + parseInt(tasks[t].schedule_value).n
                IN  /\ at - due <= SCHEDULER_POLL_INTERVAL
                    /\ due - at <= SCHEDULER_POLL_INTERVAL

\* C8: after a successful run of an interval task with value ms, next_run
\* is the instant the run finished (the TaskRun's run_at) plus ms.
C8_NextRunFromFinish ==
    \A t \in IntervalTasks :
        (RunIndexes(t) # {} /\ LastRun(t).status = "success") =>
            tasks[t].next_run =
                At(LastRun(t).run_at + parseInt(tasks[t].schedule_value).n)

\* An interval task whose successful run took more than one tick
C8_LongRunWitness ==
    \E t \in IntervalTasks :
        /\ RunIndexes(t) # {}
        /\ LastRun(t).status = "success"
        /\ LastRun(t).duration_ms > SCHEDULER_POLL_INTERVAL
        /\ tasks[t].next_run # NULL

-----------------------------------------------------------------------------
(* Properties of runContainerAgent (SpecRunner) *)

\* The last line of the output that is not blank, "" when there is none
LastNonBlank(out) ==
    IF \A i \in DOMAIN out : out[i] = "" THEN ""
    ELSE out[CHOOSE i \in DOMAIN out :
                 out[i] # "" /\ \A j \in DOMAIN out : j > i => out[j] = ""]

ClosedWith(codes) ==
    /\ proc = "closed"
    /\ lastEvent.event = "close"
    /\ lastEvent.code \in codes

\* C4: once the deadline timer has fired, the call's result is status
\* error, result null and the timeout message, whatever happens later.
C4_TimeoutIsFinal ==
    timer = "fired" =>
        /\ PromiseValue(resolves).status = "error"
        /\ PromiseValue(resolves).result = NoText
        /\ PromiseValue(resolves).error.kind = "Container timed out after"

\* The timer fired, then the process closed with code 0 and a well-formed
\* success line
C4_LateSuccessWitness ==
    /\ timer = "fired"
    /\ ClosedWith({0})
    /\ LastNonBlank(stdout) = "A"
    /\ Len(resolves) = 2

\* C5: a close with an exit code other than zero yields status error,
\* result null, whatever was written to stdout.
C5_NonZeroExitIsError ==
    ClosedWith(ExitCodes \ {0}) =>
        /\ PromiseValue(resolves).status = "error"
        /\ PromiseValue(resolves).result = NoText

\* The process wrote a well-formed success line and exited with code 1
C5_SuccessLineWitness ==
    /\ ClosedWith({1})
    /\ resolves[1].by = "close"
    /\ LastNonBlank(stdout) = "A"

\* C6: after an exit with code 0 whose last stdout line is missing or is
\* no JSON text, the promise is resolved (never left with a thrown
\* exception) with status error, and with the parse-failure message
\* whenever it is the close handler that settles it.
C6_UnparsableIsError ==
    (ClosedWith({0}) /\ ~JSONparse(LastNonBlank(stdout)).ok) =>
        /\ Len(resolves) > 0
        /\ PromiseValue(resolves).status = "error"
        /\ \A i \in DOMAIN resolves :
              resolves[i].by = "close" =>
                  /\ resolves[i].value.status = "error"
                  /\ resolves[i].value.error.kind
                         = "Failed to parse container output"

\* Exit code 0 after a well-formed line followed by a line that is no JSON
C6_GarbageLastLineWitness ==
    /\ ClosedWith({0})
    /\ resolves[1].by = "close"
    /\ stdout = <<"A", "x">>

\* C7: the result of an exit-code-0 run that the close handler settles is
\* the result the same run would have with the last line as its whole
\* stdout and with nothing on stderr.
C7_OnlyLastLineCounts ==
    (ClosedWith({0}) /\ resolves[1].by = "close") =>
        PromiseValue(resolves) = CloseResult(0, <<LastNonBlank(stdout)>>, <<>>)

\* Two different well-formed result lines and stderr output, exit code 0
C7_TwoResultLinesWitness ==
    /\ ClosedWith({0})
    /\ resolves[1].by = "close"
    /\ stdout = <<"A", "B", "">>
    /\ stderr # <<>>
    /\ PromiseValue(resolves).result = Text(<<"B">>)

\* C23: every call resolves, and the first value stands: a spawn that
\* failed yields status error with the spawn-error message, a call whose
\* first event is the deadline yields the timeout error, no later event
\* changes the value of the promise, and a call that was made is
\* eventually resolved whatever the process does.
C23_AlwaysResolvesOnce ==
    /\ [](proc = "failed" /\ Len(resolves) > 0 =>
             /\ PromiseValue(resolves).status = "error"
             /\ PromiseValue(resolves).result = NoText
             /\ PromiseValue(resolves).error.kind = "Container spawn error")
    /\ [](Len(resolves) > 0 /\ resolves[1].by = "timeout" =>
             /\ PromiseValue(resolves).status = "error"
             /\ PromiseValue(resolves).error.kind = "Container timed out after")
    /\ [][Len(resolves) > 0 =>
             PromiseValue(resolves') = PromiseValue(resolves)]_vars
    /\ (proc # "none") ~> (Len(resolves) > 0)

\* The spawn failed: the error event resolved the promise and cleared the
\* timer, and the close event that followed resolved again without effect
C23_SpawnFailedWitness ==
    /\ proc = "closed"
    /\ Len(resolves) = 2
    /\ resolves[1].by = "error"
    /\ resolves[2].by = "close"
    /\ stdout = <<>>
    /\ timer = "cleared"
    /\ PromiseValue(resolves) = SpawnErrorResult

\* C28: every value the promise is resolved with has status success or
\* error.  The close handler resolves with whatever JSON.parse returned for
\* the last line, so a line such as 42 or {} gives a value without status.
C28_StatusIsSuccessOrError ==
    \A i \in DOMAIN resolves :
        resolves[i].value.status \in {"success", "error"}

\* C29: the timer is armed with the group's timeout when one is set and
\* with the default otherwise, and the timeout message names the delay the
\* timer was armed with.  The message always names the default.
C29_MessageNamesAppliedDeadline ==
    /\ proc # "none" =>
          deadline = IF call.group.containerConfig.timeout # 0
                     THEN call.group.containerConfig.timeout
                     ELSE CONTAINER_TIMEOUT
    /\ \A i \in DOMAIN resolves :
          resolves[i].by = "timeout" =>
              /\ resolves[i].value.error.kind = "Container timed out after"
              /\ resolves[i].value.error.n = deadline

-----------------------------------------------------------------------------
(* Properties of the IPC tools (SpecIpc) *)

\* C9: a file under a final .json name, in the directory or as the poller
\* read it, holds the complete envelope at every point of writeIpcFile.
C9_FinalNameIsComplete ==
    \A f \in files \cup polled :
        f.path[2] = ".json" => f.content = "complete"

\* The process was killed between the write of the temporary file and the
\* rename: the envelope is complete under the .tmp name only
C9_CrashBeforeRenameWitness ==
    /\ calls.pc = "crashed"
    /\ HasFile(TempPath(calls.n))
    /\ FileAt(TempPath(calls.n)).content = "complete"
    /\ ~HasFile(FilePath(calls.n))

\* C10: a schedule_task envelope names a folder other than its creator's
\* only when the creator is the main conversation; from any other creator
\* it names the creator's own folder, whatever target_group was given.
C10_OnlyMainTargetsOthers ==
    calls.tool = "schedule_task" =>
        /\ calls.data.createdBy = calls.ctx.groupFolder
        /\ calls.data.groupFolder # calls.data.createdBy => calls.ctx.isMain
        /\ ~calls.ctx.isMain => calls.data.groupFolder = calls.ctx.groupFolder

\* A creator that is not main asked for another group's folder
C10_ForeignTargetWitness ==
    /\ calls.tool = "schedule_task"
    /\ ~calls.ctx.isMain
    /\ calls.args.target_group # ""
    /\ calls.args.target_group # calls.ctx.groupFolder
    /\ calls.data.groupFolder = calls.ctx.groupFolder

\* C11: whatever pause_task, resume_task and cancel_task calls the
\* conversations other than main make, with whatever task_id, a task owned
\* by a working folder that is none of theirs is never paused, resumed or
\* cancelled: its row stays as it was.
C11_OwnFolderTasksOnly ==
    \A t \in TaskIds :
        (\A ctx \in GuestContexts : tasks[t].group_folder # ctx.groupFolder) =>
            tasks[t] = IpcTable[t]

\* The host has read a complete cancel_task envelope of another group's
\* conversation that names the main group's task, and a pause of that
\* conversation's own task has been applied
C11_RefusedRequestWitness ==
    /\ \E f \in polled :
          /\ f.content = "complete"
          /\ f.data.type = "cancel_task"
          /\ f.data.groupFolder = "g1"
          /\ f.data.taskId = "t1"
    /\ tasks["t2"].status = "paused"

-----------------------------------------------------------------------------
(* More properties of the scheduler (Spec) *)

\* A step of the loop: a tick, or the rest of a tick after a container
LoopStep ==
    \/ pc = "sleeping" /\ (wake' # wake \/ pc' = "awaiting")
    \/ pc = "awaiting" /\ taskRuns' # taskRuns

\* The tasks the loop reaches in this step, with what it did
Reached(t, what) ==
    /\ LoopStep
    /\ \E k \in DOMAIN tickLog' :
          /\ tickLog'[k] = <<t, what>>
          /\ pc = "awaiting" => k > Len(tickLog)

\* The TaskRuns of task t that this step records
NewRuns(t) == { i \in DOMAIN taskRuns' : i > Len(taskRuns) /\ taskRuns'[i].task_id = t }

\* C12: a due task whose working folder matches no registered group gets,
\* when the loop reaches it, exactly one error TaskRun; no container is
\* invoked for it, no snapshot is published unless another task starts, and
\* its row (next_run, status, last result) is unchanged, so it is still due.
C12_GroupMissingLeavesTaskDue ==
    [][\A t \in TaskIds :
          ( /\ tasks[t].exists /\ tasks[t].status = "active"
            /\ tasks[t].group_folder \notin registered
            /\ \E what \in {"no group", "invoked"} : Reached(t, what) ) =>
              /\ Cardinality(NewRuns(t)) = 1
              /\ \A i \in NewRuns(t) :
                    /\ taskRuns'[i].status = "error"
                    /\ taskRuns'[i].error.kind = "Group not found"
              /\ tasks'[t] = tasks[t]
              /\ ~(pc' = "awaiting" /\ cur'.task = t)
              /\ pc' = "sleeping" =>
                    /\ snapshotFile' = snapshotFile
                    /\ \A inv \in invocations' : inv.caller # "scheduler"
              /\ IsDue(tasks', t, now')]_vars

\* A task of an unregistered group has been tried on two ticks
C12_TriedAgainWitness ==
    \E t \in TaskIds :
        /\ tasks[t].group_folder \notin registered
        /\ Cardinality(RunIndexes(t)) = 2
        /\ \A i \in RunIndexes(t) : ~ContainerRun(taskRuns[i])
        /\ \E i, j \in RunIndexes(t) : taskRuns[i].run_at < taskRuns[j].run_at
        /\ tasks[t].next_run = At(0)

\* C13: every tick is followed by another one, whether it completed or
\* threw: a tick scheduled for instant n (within the instants the model
\* covers) eventually runs, and a tick that awaits a container eventually
\* ends with the next tick scheduled.
C13_TicksNeverStop ==
    /\ \A n \in 0..MaxTime :
          (pc = "sleeping" /\ wake = n) ~> (pc = "awaiting" \/ wake > n)
    /\ (pc = "awaiting") ~> (pc = "sleeping")
    /\ [](pc \in {"sleeping", "awaiting"})

\* A task whose next-run computation throws has been run on two ticks: the
\* tick after the one that threw took place
C13_TickAfterThrowWitness ==
    \E t \in TaskIds :
        /\ tasks[t].schedule_type = "cron"
        /\ ~CronParses(tasks[t].schedule_value)
        /\ Cardinality(RunIndexes(t)) = 2
        /\ \A i \in RunIndexes(t) : ContainerRun(taskRuns[i])
        /\ pc = "sleeping"

\* C14: an error during the invocation (the runner resolves with status
\* error, or the call throws) is recorded as exactly one TaskRun with
\* status error and the error text, does not throw out of runTask and is
\* followed by the task update; the TaskRun has status success exactly
\* when no error was captured.
C14_InvocationErrorCaptured ==
    [][\A time \in 0..MaxTime, output \in RunnerOutcomes :
          ContainerDone(time, output) =>
              LET t      == cur.task
                  failed == output.status \in {"error", "thrown"}
              IN  /\ Cardinality(NewRuns(t)) = 1
                  /\ \A i \in NewRuns(t) :
                        /\ taskRuns'[i].status = "success" <=> ~failed
                        /\ taskRuns'[i].status = "error" <=> failed
                        /\ taskRuns'[i].error = CapturedError(output)
                        /\ failed => taskRuns'[i].error # NoError
                  /\ failed =>
                        /\ \A k \in DOMAIN tickLog' :
                              k > Len(tickLog) => tickLog'[k] # <<t, "threw">>
                        /\ tasks[t].exists =>
                              tasks'[t].last_result
                                  = <<"Error: ", CapturedError(output)>>]_vars

\* The run this step records for the task whose container was awaited
NewRun == taskRuns'[Len(taskRuns) + 1]

\* C21: the step that ends a container run persists, for a task that is
\* still in the store, the summary of that run: 'Error: ' and the error
\* text when the run errored, otherwise the first 200 characters of the
\* result, and 'Completed' when the result is empty or null.
C21_SummaryPersisted ==
    [][\A time \in 0..MaxTime, output \in RunnerOutcomes :
          (ContainerDone(time, output) /\ tasks[cur.task].exists) =>
              tasks'[cur.task].last_result =
                  IF NewRun.status = "error"
                  THEN <<"Error: ", NewRun.error>>
                  ELSE IF NewRun.result.null \/ NewRun.result.s = <<>>
                  THEN <<"Completed", NoText>>
                  ELSE <<"", Text([i \in 1..(IF Len(NewRun.result.s) < 200
                                              THEN Len(NewRun.result.s) ELSE 200)
                                    |-> NewRun.result.s[i]])>>]_vars

\* The tasks with a cron expression that CronExpressionParser reads
CronTasks ==
    { t \in TaskIds : /\ tasks[t].exists
                      /\ tasks[t].schedule_type = "cron"
                      /\ CronParses(tasks[t].schedule_value) }

\* The instants at which the expression "every" fires
CronOccurrences == { n \in 0..(MaxTime + CronEvery) : n % CronEvery = 0 }

\* C22: the step that ends the container run of a cron task (one whose
\* expression parses) records one TaskRun for it, sets next_run to the
\* first occurrence of the expression strictly after the instant the run
\* finished, leaves the status as it is, and does not run the task again.
C22_CronNextOccurrence ==
    [][(pc = "awaiting" /\ Len(taskRuns') > Len(taskRuns)
                         /\ cur.task \in CronTasks) =>
              LET t == cur.task IN
              /\ Cardinality(NewRuns(t)) = 1
              /\ \E n \in CronOccurrences :
                    /\ tasks'[t].next_run = At(n)
                    /\ n > NewRun.run_at
                    /\ \A m \in CronOccurrences : m > NewRun.run_at => n <= m
              /\ tasks'[t].status = tasks[t].status
              /\ ~IsDue(tasks', t, now')
              /\ ~(pc' = "awaiting" /\ cur'.task = t)]_vars

\* An active cron task whose run finished exactly at an occurrence of its
\* expression: next_run is the occurrence after that one
C22_FinishedOnOccurrenceWitness ==
    \E t \in CronTasks :
        /\ RunIndexes(t) # {}
        /\ ContainerRun(LastRun(t))
        /\ LastRun(t).run_at \in CronOccurrences
        /\ tasks[t].status = "active"
        /\ tasks[t].next_run = At(LastRun(t).run_at + CronEvery)

\* The invocations in flight that the scheduler started
SchedulerInvocations == { inv \in invocations : inv.caller = "scheduler" }

\* C25: the scheduler has at most one invocation in flight and none while
\* it sleeps; while it awaits a container the only step of the loop is the
\* one that records the run of that container, and the next tick is
\* scheduled only in a step that leaves no task of the tick running.
C25_TicksNeverOverlap ==
    /\ [](Cardinality(SchedulerInvocations) <= 1)
    /\ [](pc = "sleeping" => SchedulerInvocations = {})
    /\ [][(pc = "awaiting" /\ <<pc, wake, dueTasks, idx, cur, tickLog>>'
                                 # <<pc, wake, dueTasks, idx, cur, tickLog>>) =>
             /\ Len(taskRuns') > Len(taskRuns)
             /\ NewRun.task_id = cur.task
             /\ ContainerRun(NewRun)]_vars
    /\ [][wake' # wake =>
             /\ pc' = "sleeping"
             /\ \A inv \in invocations' : inv.caller # "scheduler"]_vars

\* The second due task of a tick is running after the first one's
\* container run has ended
C25_SecondTaskAfterFirstWitness ==
    /\ pc = "awaiting"
    /\ Len(dueTasks) = 2
    /\ idx = 2
    /\ cur.task = dueTasks[2]
    /\ RunIndexes(dueTasks[1]) # {}
    /\ ContainerRun(LastRun(dueTasks[1]))
    /\ Cardinality(SchedulerInvocations) = 1

\* C26: the step that records the TaskRun of a container run also
\* persists the task's update, whatever schedule_value the task holds: the
\* summary of that run is stored, runTask does not throw, and next_run is
\* null for a once task and otherwise an instant counted from the end of
\* the run.  The next-run computation throws for a cron expression
\* that does not parse and for an interval that is no number, so this
\* fails.
C26_UpdatePersistedAfterRun ==
    [][\A time \in 0..MaxTime, output \in RunnerOutcomes :
          (ContainerDone(time, output) /\ tasks[cur.task].exists) =>
              LET t == cur.task IN
              /\ tasks'[t].last_result = ResultSummary(NewRun.error, NewRun.result)
              /\ \A k \in DOMAIN tickLog' :
                    k > Len(tickLog) => tickLog'[k] # <<t, "threw">>
              /\ IF tasks[t].schedule_type = "once"
                 THEN tasks'[t].next_run = NULL
                 ELSE \E n \in tasks'[t].next_run :
                          n >= NewRun.run_at
                                + (IF tasks[t].schedule_type = "interval"
                                   THEN parseInt(tasks[t].schedule_value).n
                                   ELSE 0)]_vars

\* C27, for the tick in which a failure happens: when a tick ends, every
\* task of its list that is active and belongs to a registered group has
\* been reached by the loop.  An exception thrown inside runTask leaves the
\* for loop, so the tasks listed after the failing one are not reached.
C27_FailureSparesOtherDueTasks ==
    [][(LoopStep /\ pc' = "sleeping") =>
          \A i \in DOMAIN dueTasks' :
              LET t == dueTasks'[i] IN
              ( /\ tasks'[t].exists /\ tasks'[t].status = "active"
                /\ tasks'[t].group_folder \in registered' ) =>
                  \E k \in DOMAIN tickLog' : tickLog'[k][1] = t]_vars

-----------------------------------------------------------------------------
(* Properties of the mounts (SpecMounts, Spec) *)

ContainerPaths(ms) == { ms[i].containerPath : i \in DOMAIN ms }

\* C15: with no extra mounts and no global memory file, the mount list is
\* exactly the working folder, the session area and the IPC directory,
\* whatever else exists on the host.
C15_ExactlyThreeMounts ==
    ( /\ proc # "none"
      /\ call.group.containerConfig.additionalMounts = <<>>
      /\ GlobalClaudeMd \notin call.fs ) =>
        /\ Len(mounts) = 3
        /\ ContainerPaths(mounts)
              = { <<"/workspace/group">>, <<"/root/.claude">>, <<"/workspace/ipc">> }

\* C16: no invocation the scheduler starts, one for the main group's
\* folder included, is given the global memory file writable, whatever
\* exists on the host.
C16_ScheduledRunsGetReadOnlyGlobal ==
    \A inv \in invocations :
        inv.caller = "scheduler" =>
            \A fs \in SUBSET BasePaths :
                LET args == buildContainerArgs(
                                buildVolumeMounts(PlainGroup(inv.folder, 0),
                                                  inv.isMain, fs))
                IN  \A i \in DOMAIN args :
                        args[i].hostPath = GlobalClaudeMd => args[i].mode = ":ro"

\* The scheduler runs a task of the main group's folder, and on a host
\* that has the global memory file the mount list names it
C16_MainFolderTaskWitness ==
    /\ pc = "awaiting"
    /\ SchedInvocation(MAIN_GROUP_FOLDER) \in invocations
    /\ tasks[cur.task].group_folder = MAIN_GROUP_FOLDER
    /\ \E i \in 1..2 :
          buildVolumeMounts(PlainGroup(MAIN_GROUP_FOLDER, 0), FALSE,
                            {GlobalClaudeMd})[i].hostPath = GlobalClaudeMd

\* The additional mounts of the configuration whose source path exists
KeptExtras ==
    SelectSeq(call.group.containerConfig.additionalMounts,
              LAMBDA m : ResolveHome(m.hostPath) \in call.fs)

IsExtra(m) == m.containerPath[1] = "/workspace/extra"

IsNotExtra(m) == ~IsExtra(m)

\* C17: the mount list holds, after the other mounts, one mount for each
\* additional mount whose source path exists, in the configuration's order,
\* read-only unless the entry says readonly: false; an entry whose path
\* does not exist adds nothing, and the other mounts are the ones the call
\* has without additional mounts.
C17_ExtraMountsReadOnlyByDefault ==
    proc # "none" =>
        LET extras == SelectSeq(mounts, IsExtra)
            others == SelectSeq(mounts, IsNotExtra)
        IN  /\ mounts = others \o extras
            /\ Len(extras) = Len(KeptExtras)
            /\ \A k \in DOMAIN extras :
                  /\ extras[k].hostPath = ResolveHome(KeptExtras[k].hostPath)
                  /\ extras[k].hostPath \in call.fs
                  /\ extras[k].readonly = (KeptExtras[k].readonly # "false")
                  /\ containerArgs[Len(others) + k].mode
                        = IF KeptExtras[k].readonly = "false" THEN "" ELSE ":ro"
            /\ others = buildVolumeMounts(
                            PlainGroup(call.group.folder,
                                       call.group.containerConfig.timeout),
                            call.isMain, call.fs)

\* Two additional mounts: the first one's path is missing, the second
\* exists and does not say whether it is read-only
C17_MissingAndDefaultWitness ==
    /\ proc # "none"
    /\ Len(call.group.containerConfig.additionalMounts) = 2
    /\ ResolveHome(call.group.containerConfig.additionalMounts[1].hostPath)
          \notin call.fs
    /\ call.group.containerConfig.additionalMounts[2].readonly = "undefined"
    /\ Len(SelectSeq(mounts, IsExtra)) = 1
    /\ mounts[Len(mounts)].readonly

-----------------------------------------------------------------------------
(* More properties of the IPC tools (SpecIpc) *)

\* C18: every envelope a tool writes carries the fields type, groupFolder,
\* isMain and timestamp.
C18_EnvelopeFields ==
    \A f \in files \cup polled :
        {"type", "groupFolder", "isMain", "timestamp"} \subseteq DOMAIN f.data

-----------------------------------------------------------------------------
(* The task snapshot (Spec) *)

\* C19: a step in which the scheduler starts a container has published
\* the snapshot first: the file holds one entry {id, groupFolder, prompt,
\* schedule_type, schedule_value, status, next_run} for every task that
\* is in the store when the task starts.
C19_SnapshotBeforeInvocation ==
    [][\A t \in TaskIds :
          Reached(t, "invoked") =>
              /\ snapshotFile'.state = "written"
              /\ snapshotFile'.entries =
                    { [id |-> u, groupFolder |-> tasks'[u].group_folder,
                       prompt |-> tasks'[u].prompt,
                       schedule_type |-> tasks'[u].schedule_type,
                       schedule_value |-> tasks'[u].schedule_value,
                       status |-> tasks'[u].status,
                       next_run |-> tasks'[u].next_run]
                      : u \in {v \in TaskIds : tasks'[v].exists} }
              /\ SchedInvocation(tasks'[t].group_folder) \in invocations']_vars

\* A container runs for one task while the snapshot also lists a paused one
C19_PausedListedWitness ==
    /\ pc = "awaiting"
    /\ Cardinality(snapshotFile.entries) = 2
    /\ \E e \in snapshotFile.entries : e.status = "paused"
    /\ \E e \in snapshotFile.entries : e.id = cur.task /\ e.status = "active"

-----------------------------------------------------------------------------
(* list_tasks (SpecList) *)

\* C20: list_tasks shows a conversation that is not privileged only the
\* entries of its own working folder and shows the main conversation every
\* entry; it answers 'No scheduled tasks found.' when the file is absent
\* or nothing is left to show, and an error text when the file cannot be
\* read as the array.
C20_ListShowsOwnTasksOnly ==
    listed.called =>
        LET mine == { e \in listed.file.entries :
                        e.groupFolder = listed.ctx.groupFolder }
            ids  == { l.id : l \in listed.result.lines }
        IN  /\ ~listed.ctx.isMain => ids = { e.id : e \in mine }
            /\ listed.ctx.isMain => ids = { e.id : e \in listed.file.entries }
            /\ listed.file.state = "absent" =>
                  listed.result.text = "No scheduled tasks found."
            /\ (listed.file.state = "written" /\ ids = {}) =>
                  listed.result.text = "No scheduled tasks found."
            /\ (listed.file.state = "written" /\ ids # {}) =>
                  listed.result.text = "Scheduled tasks:"
            /\ listed.file.state \in {"garbled", "no array"} =>
                  listed.result.text = "Error reading tasks"

\* A conversation that is not main listed a snapshot that holds a task of
\* its own folder and a task of another folder
C20_ForeignEntryHiddenWitness ==
    /\ listed.called
    /\ ~listed.ctx.isMain
    /\ Cardinality(listed.file.entries) = 2
    /\ Cardinality(listed.result.lines) = 1
    /\ \E e \in listed.file.entries : e.groupFolder # listed.ctx.groupFolder

-----------------------------------------------------------------------------
(* The task snapshot and its readers (SpecSnapshot) *)

\* C30: a list_tasks call finds the snapshot either absent or whole, as
\* one writeTasksSnapshot call left it.  The file is written in place under
\* its final name, so a call made during the write reads an empty or an
\* incomplete text.
C30_SnapshotReadWhole ==
    listed.called => listed.file.state \in {"absent", "written"}

-----------------------------------------------------------------------------
(* The Feishu channel (SpecChannel) *)

\* The position at which the adapter delivered the event of message id
DeliveredAt(id) ==
    CHOOSE i \in DOMAIN delivered : delivered[i].message_id = id

\* C24: the messages of one chat reach the onMessage callback in the order
\* in which the adapter delivered their events.  The handler of a later
\* event can get its lookups answered first, so this fails.
C24_ArrivalOrderKept ==
    \A i, j \in DOMAIN received :
        (i < j /\ received[i].chat_jid = received[j].chat_jid) =>
            DeliveredAt(received[i].id) < DeliveredAt(received[j].id)

-----------------------------------------------------------------------------
(* The next run of a recurring task (Spec) *)

\* C31: the step that ends the container run of a cron or interval task
\* persists a next_run strictly later than the instant the run finished,
\* so the task is not due when the step is over.  An interval of 0 or
\* less gives a next_run that is not later, and a value the computation
\* throws on leaves the old next_run, so this fails.
C31_NextRunStrictlyLater ==
    [][(pc = "awaiting" /\ Len(taskRuns') > Len(taskRuns)
                         /\ tasks[cur.task].exists
                         /\ tasks[cur.task].schedule_type \in {"cron", "interval"}) =>
          /\ \E n \in tasks'[cur.task].next_run : n > NewRun.run_at
          /\ ~IsDue(tasks', cur.task, now')]_vars

====
